---- MODULE Spec2Model ----
(***************************************************************************)
(* A model of the bytecode virtual machine of src/src/main.rs.             *)
(*                                                                         *)
(* The machine state is the chain of live frames (the host call stack of   *)
(* Frame::run / Frame::call_function), the lines written to standard       *)
(* output and the process status.  One step executes one instruction of    *)
(* the innermost frame; a panic of the host program ends the run.          *)
(*                                                                         *)
(* Value::Int is modelled by the mathematical integers and Value::Float by *)
(* rationals.  The conversion of an i32 to f32 rounds to 24 significant    *)
(* bits as the hardware does; sums, products and quotients of f32 values   *)
(* are kept exact, and the documents explored keep every integer below the *)
(* width at which i32 wraps.                                               *)
(***************************************************************************)
EXTENDS Integers, Sequences, FiniteSets, TLC

\* frames: the live frames, the root first and the running frame last
\* status: "running", "done" (main returned) or "panic" (the process aborted)
\* error: the kind of the panic, "" while there is none
\* output: the lines written to standard output
\* last, pre, shadow: history; the step taken last, the frames before it, and
\*   per live frame what its own instructions did to each identifier
VARIABLES frames, status, error, output, last, pre, shadow

vars == <<frames, status, error, output, last, pre, shadow>>

----------------------------------------------------------------------------
(* Bounds of the exploration.                                              *)

\* longest operand stack of the documents that enumerate every stack
MaxInitStack == 2
\* number of nested frames the host stack holds before it overflows
MaxFrames == 4
\* longest sequence of scope instructions in a generated document
MaxScopeLen == 3

----------------------------------------------------------------------------
(* Values (enum Value).                                                    *)

VInt(n) == [k |-> "Int", v |-> n]
VBool(b) == [k |-> "Bool", v |-> b]
VFloat(q) == [k |-> "Float", v |-> q]
VStr(s) == [k |-> "Str", v |-> s]
Nonetype == [k |-> "Nonetype", v |-> 0]
VFrame(f) == [k |-> "Frame", v |-> f]

\* the outcome of an operator that panics
Panic(kind) == [k |-> "panic", v |-> kind]

IsPanic(x) == x.k = "panic"

\* `b as i32`
BoolAsI32(b) == IF b THEN 1 ELSE 0

----------------------------------------------------------------------------
(* f32 values as rationals n/d, d > 0; d = 0 encodes +inf (n = 1),         *)
(* -inf (n = -1) and NaN (n = 0).                                          *)

Abs(n) == IF n < 0 THEN -n ELSE n

RECURSIVE Gcd(_, _)
Gcd(a, b) == IF b = 0 THEN a ELSE Gcd(b, a % b)

Q(n, d) ==
  IF d = 0 THEN [n |-> IF n > 0 THEN 1 ELSE IF n < 0 THEN -1 ELSE 0, d |-> 0]
  ELSE LET g == Gcd(Abs(n), Abs(d))
           s == IF d < 0 THEN -1 ELSE 1
       IN [n |-> s * (n \div g), d |-> s * (d \div g)]

I32Max == 2147483647

I32Min == -2147483647 - 1

\* 2^24: every integer up to it is an f32, beyond it only the multiples of the
\* unit in the last place
F32Exact == 16777216

\* the unit in the last place of the f32 nearest to m >= 0
RECURSIVE Ulp(_)
Ulp(m) == IF m < F32Exact THEN 1 ELSE 2 * Ulp(m \div 2)

\* m >= 0 rounded to the nearest f32, ties to the even significand
RoundToF32(m) ==
  LET u == Ulp(m)
      q == m \div u
      r == m % u
  IN IF 2 * r > u \/ (2 * r = u /\ q % 2 = 1) THEN (q + 1) * u ELSE q * u

\* `n as f32`.  An i32 within 64 of 2^31 in magnitude converts to 2^31, which
\* no numerator of the model holds: it is taken as infinite, which agrees
\* with 2^31 in what `as i32` and a quotient truncated to an i32 give.
IntAsF32(n) ==
  IF n > I32Max - 64 THEN [n |-> 1, d |-> 0]
  ELSE IF n < -(I32Max - 64) THEN [n |-> -1, d |-> 0]
  ELSE [n |-> IF n < 0 THEN -RoundToF32(-n) ELSE RoundToF32(n), d |-> 1]

QNaN == [n |-> 0, d |-> 0]

QIsNaN(a) == a.d = 0 /\ a.n = 0

QIsInf(a) == a.d = 0 /\ a.n # 0

QSign(a) == IF a.n > 0 THEN 1 ELSE IF a.n < 0 THEN -1 ELSE 0

QNeg(a) == [n |-> -a.n, d |-> a.d]

QAdd(a, b) ==
  IF QIsNaN(a) \/ QIsNaN(b) THEN QNaN
  ELSE IF QIsInf(a) /\ QIsInf(b) THEN (IF a.n = b.n THEN a ELSE QNaN)
  ELSE IF QIsInf(a) THEN a
  ELSE IF QIsInf(b) THEN b
  ELSE Q(a.n * b.d + b.n * a.d, a.d * b.d)

QSub(a, b) == QAdd(a, QNeg(b))

QMul(a, b) ==
  IF QIsNaN(a) \/ QIsNaN(b) THEN QNaN
  ELSE IF QIsInf(a) \/ QIsInf(b)
       THEN [n |-> QSign(a) * QSign(b), d |-> 0]
  ELSE Q(a.n * b.n, a.d * b.d)

QDiv(a, b) ==
  IF QIsNaN(a) \/ QIsNaN(b) THEN QNaN
  ELSE IF QIsInf(a) THEN (IF QIsInf(b) THEN QNaN
                          ELSE [n |-> a.n * (IF b.n < 0 THEN -1 ELSE 1), d |-> 0])
  ELSE IF QIsInf(b) THEN IntAsF32(0)
  ELSE IF b.n = 0 THEN [n |-> QSign(a), d |-> 0]
  ELSE Q(a.n * b.d, a.d * b.n)

\* f32::partial_cmp: "None" when either side is NaN
QCmp(a, b) ==
  IF QIsNaN(a) \/ QIsNaN(b) THEN "None"
  ELSE IF QIsInf(a) \/ QIsInf(b)
       THEN LET x == IF QIsInf(a) THEN 2 * a.n ELSE QSign(a)
                y == IF QIsInf(b) THEN 2 * b.n ELSE QSign(b)
            IN IF QIsInf(a) /\ QIsInf(b) /\ a.n = b.n THEN "Equal"
               ELSE IF x < y THEN "Less"
               ELSE IF x > y THEN "Greater"
               ELSE IF QIsInf(a) THEN (IF a.n > 0 THEN "Greater" ELSE "Less")
               ELSE (IF b.n > 0 THEN "Less" ELSE "Greater")
  ELSE LET l == a.n * b.d
           r == b.n * a.d
       IN IF l < r THEN "Less" ELSE IF l > r THEN "Greater" ELSE "Equal"

\* `x as i32` for an f32: truncation toward zero, saturating, NaN to 0
F32AsI32(a) ==
  IF QIsNaN(a) THEN 0
  ELSE IF QIsInf(a) THEN (IF a.n > 0 THEN I32Max ELSE I32Min)
  ELSE IF a.n >= 0 THEN a.n \div a.d ELSE -((-a.n) \div a.d)

----------------------------------------------------------------------------
(* Strings are sequences of one-character strings.                         *)

\* the characters in use, in ascending byte order
Alphabet ==
  <<"-", ".", "0", "1", "2", "3", "4", "5", "6", "7", "8", "9",
    "F", "N", "_", "a", "b", "e", "f", "i", "l", "m", "n", "o", "p", "r", "s",
    "t", "u">>

CharCode(c) == CHOOSE i \in 1..Len(Alphabet) : Alphabet[i] = c

RECURSIVE StrCmp(_, _)
StrCmp(a, b) ==
  IF a = << >> /\ b = << >> THEN "Equal"
  ELSE IF a = << >> THEN "Less"
  ELSE IF b = << >> THEN "Greater"
  ELSE IF CharCode(Head(a)) < CharCode(Head(b)) THEN "Less"
  ELSE IF CharCode(Head(a)) > CharCode(Head(b)) THEN "Greater"
  ELSE StrCmp(Tail(a), Tail(b))

IntCmp(a, b) == IF a < b THEN "Less" ELSE IF a > b THEN "Greater" ELSE "Equal"

----------------------------------------------------------------------------
(* Operators of Value (impl PartialEq, PartialOrd, Add, Sub, Mul, Div).    *)
(* An or-pattern such as (Float(first), Int(second)) | (Int(second),       *)
(* Float(first)) binds `first` to the Float whichever side it stands on.   *)

Kinds(self, other, k1, k2) == self.k = k1 /\ other.k = k2

Mixed(self, other, k1, k2) ==
  Kinds(self, other, k1, k2) \/ Kinds(self, other, k2, k1)

\* the payload of whichever operand has kind k
Of(self, other, kind) == IF self.k = kind THEN self.v ELSE other.v

\* Option<Ordering>
Ordering(o) == [k |-> "Ordering", v |-> o]

\* PartialEq::eq; a Bool or a panic
Value_eq(self, other) ==
  IF Kinds(self, other, "Int", "Int") THEN VBool(self.v = other.v)
  ELSE IF Kinds(self, other, "Bool", "Bool") THEN VBool(self.v = other.v)
  ELSE IF Kinds(self, other, "Str", "Str") THEN VBool(self.v = other.v)
  ELSE IF Kinds(self, other, "Float", "Float")
       THEN VBool(QCmp(self.v, other.v) = "Equal")
  ELSE IF Mixed(self, other, "Float", "Int")
       THEN VBool(QCmp(IntAsF32(Of(self, other, "Int")),
                       Of(self, other, "Float")) = "Equal")
  ELSE IF Mixed(self, other, "Float", "Bool")
       THEN VBool(QCmp(Of(self, other, "Float"),
                       IntAsF32(BoolAsI32(Of(self, other, "Bool")))) = "Equal")
  ELSE IF Mixed(self, other, "Bool", "Int")
       THEN VBool(BoolAsI32(Of(self, other, "Bool")) = Of(self, other, "Int"))
  ELSE Panic("TypeMismatch")

\* PartialOrd::partial_cmp; an Ordering ("None" for an unordered pair) or a panic
Value_partial_cmp(self, other) ==
  IF Kinds(self, other, "Int", "Int") THEN Ordering(IntCmp(self.v, other.v))
  ELSE IF Kinds(self, other, "Bool", "Bool")
       THEN Ordering(IntCmp(BoolAsI32(self.v), BoolAsI32(other.v)))
  ELSE IF Kinds(self, other, "Str", "Str") THEN Ordering(StrCmp(self.v, other.v))
  ELSE IF Kinds(self, other, "Float", "Float") THEN Ordering(QCmp(self.v, other.v))
  ELSE IF Mixed(self, other, "Float", "Int")
       THEN Ordering(QCmp(Of(self, other, "Float"), IntAsF32(Of(self, other, "Int"))))
  ELSE IF Mixed(self, other, "Float", "Bool")
       THEN Ordering(QCmp(Of(self, other, "Float"),
                          IntAsF32(BoolAsI32(Of(self, other, "Bool")))))
  ELSE IF Mixed(self, other, "Bool", "Int")
       THEN Ordering(IntCmp(BoolAsI32(Of(self, other, "Bool")),
                            Of(self, other, "Int")))
  ELSE Panic("TypeMismatch")

Value_add(self, rhs) ==
  IF Kinds(self, rhs, "Int", "Int") THEN VInt(self.v + rhs.v)
  ELSE IF Kinds(self, rhs, "Float", "Float") THEN VFloat(QAdd(self.v, rhs.v))
  ELSE IF Kinds(self, rhs, "Bool", "Bool")
       THEN VInt(BoolAsI32(self.v) + BoolAsI32(rhs.v))
  ELSE IF Kinds(self, rhs, "Str", "Str") THEN VStr(self.v \o rhs.v)
  ELSE IF Mixed(self, rhs, "Float", "Int")
       THEN VFloat(QAdd(Of(self, rhs, "Float"), IntAsF32(Of(self, rhs, "Int"))))
  ELSE IF Mixed(self, rhs, "Bool", "Int")
       THEN VInt(BoolAsI32(Of(self, rhs, "Bool")) + Of(self, rhs, "Int"))
  ELSE Panic("TypeMismatch")

Value_sub(self, rhs) ==
  IF Kinds(self, rhs, "Int", "Int") THEN VInt(self.v - rhs.v)
  ELSE IF Kinds(self, rhs, "Float", "Float") THEN VFloat(QSub(self.v, rhs.v))
  ELSE IF Kinds(self, rhs, "Bool", "Bool")
       THEN VInt(BoolAsI32(self.v) - BoolAsI32(rhs.v))
  ELSE IF Mixed(self, rhs, "Float", "Int")
       THEN VFloat(QSub(Of(self, rhs, "Float"), IntAsF32(Of(self, rhs, "Int"))))
  ELSE IF Mixed(self, rhs, "Bool", "Int")
       THEN VInt(BoolAsI32(Of(self, rhs, "Bool")) - Of(self, rhs, "Int"))
  ELSE Panic("TypeMismatch")

\* `res = first.clone(); for _ in 1..second { res += first }`
RECURSIVE Repeat(_, _)
Repeat(first, second) ==
  IF second <= 1 THEN first ELSE first \o Repeat(first, second - 1)

Value_mul(self, rhs) ==
  IF Kinds(self, rhs, "Int", "Int") THEN VInt(self.v * rhs.v)
  ELSE IF Kinds(self, rhs, "Float", "Float") THEN VFloat(QMul(self.v, rhs.v))
  ELSE IF Kinds(self, rhs, "Bool", "Bool")
       THEN VInt(BoolAsI32(self.v) * BoolAsI32(rhs.v))
  ELSE IF Mixed(self, rhs, "Str", "Int")
       THEN VStr(Repeat(Of(self, rhs, "Str"), Of(self, rhs, "Int")))
  ELSE IF Mixed(self, rhs, "Float", "Int")
       THEN VFloat(QMul(Of(self, rhs, "Float"), IntAsF32(Of(self, rhs, "Int"))))
  ELSE IF Mixed(self, rhs, "Bool", "Int")
       THEN VInt(BoolAsI32(Of(self, rhs, "Bool")) * Of(self, rhs, "Int"))
  ELSE Panic("TypeMismatch")

Value_div(self, rhs) ==
  IF Kinds(self, rhs, "Int", "Int")
       THEN VFloat(QDiv(IntAsF32(self.v), IntAsF32(rhs.v)))
  ELSE IF Kinds(self, rhs, "Float", "Float") THEN VFloat(QDiv(self.v, rhs.v))
  ELSE IF Kinds(self, rhs, "Bool", "Bool")
       THEN VFloat(QDiv(IntAsF32(BoolAsI32(self.v)), IntAsF32(BoolAsI32(rhs.v))))
  ELSE IF Mixed(self, rhs, "Float", "Int")
       THEN VFloat(QDiv(Of(self, rhs, "Float"), IntAsF32(Of(self, rhs, "Int"))))
  ELSE IF Mixed(self, rhs, "Bool", "Int")
       THEN VFloat(QDiv(IntAsF32(BoolAsI32(Of(self, rhs, "Bool"))),
                        IntAsF32(Of(self, rhs, "Int"))))
  ELSE Panic("TypeMismatch")

\* the match of Frame::compare_op over CompareOps::from(arg)
Compare(arg, first_var, second_var) ==
  LET c == Value_partial_cmp(first_var, second_var)
      e == Value_eq(first_var, second_var)
  IN IF arg \notin 0..5 THEN Panic("InvalidOperand")
     ELSE IF arg \in {2, 3}
          THEN (IF IsPanic(e) THEN e
                ELSE VBool(IF arg = 2 THEN e.v ELSE ~e.v))
     ELSE IF IsPanic(c) THEN c
     ELSE VBool(CASE arg = 0 -> c.v = "Less"
                  [] arg = 1 -> c.v \in {"Less", "Equal"}
                  [] arg = 4 -> c.v = "Greater"
                  [] arg = 5 -> c.v \in {"Greater", "Equal"})

----------------------------------------------------------------------------
(* Frames (struct Frame).  `index`, instruction operands and the positions *)
(* of `constants`, `co_names` and `co_varnames` count from 0 as in the     *)
(* source; the sequences of the model count from 1.                        *)

\* HashMap::new()
EmptyMap == [x \in {} |-> Nonetype]

\* HashMap::insert
Insert(m, key, val) ==
  [x \in DOMAIN m \cup {key} |-> IF x = key THEN val ELSE m[x]]

\* HashMap::remove
Remove(m, key) == [x \in DOMAIN m \ {key} |-> m[x]]

\* Vec::get / indexing at a 0-based position
At(seq, i) == seq[i + 1]

InRange(seq, i) == i >= 0 /\ i < Len(seq)

Last(seq) == seq[Len(seq)]

\* the vector after Vec::pop
Front(seq) == SubSeq(seq, 1, Len(seq) - 1)

\* Vec::swap at 0-based positions
Swap(seq, i, j) ==
  [seq EXCEPT ![i + 1] = seq[j + 1], ![j + 1] = seq[i + 1]]

\* Vec::insert at a 0-based position
InsertAt(seq, i, val) ==
  SubSeq(seq, 1, i) \o <<val>> \o SubSeq(seq, i + 1, Len(seq))

\* Vec::remove at a 0-based position
RemoveAt(seq, i) == SubSeq(seq, 1, i) \o SubSeq(seq, i + 2, Len(seq))

Ins(op, arg) == [op |-> op, arg |-> arg]

\* a frame as serde builds it from a document giving only the program
NewFrame(instructions, constants, co_names, co_varnames) ==
  [instructions |-> instructions, constants |-> constants,
   co_names |-> co_names, co_varnames |-> co_varnames,
   stack |-> << >>, index |-> 0, globals |-> EmptyMap, locals |-> EmptyMap,
   return_value |-> Nonetype, depth |-> 0]

\* the outcome of a handler that returns
Ok(x) == [k |-> "ok", v |-> x]

\* `self.index += 1`
Advance(self) == [self EXCEPT !.index = @ + 1]

----------------------------------------------------------------------------
(* Instruction handlers (impl Frame).  Each takes the frame as `self` and  *)
(* yields the frame it leaves, or the panic that ends the process.         *)

load_const(self, arg) ==
  IF ~InRange(self.constants, arg) THEN Panic("InvalidOperand")
  ELSE Ok(Advance([self EXCEPT !.stack = Append(@, At(self.constants, arg))]))

store_name(self, arg) ==
  IF ~InRange(self.co_names, arg) THEN Panic("InvalidOperand")
  ELSE IF self.stack = << >> THEN Panic("StackUnderflow")
  ELSE Ok(Advance([self EXCEPT
         !.locals = Insert(@, At(self.co_names, arg), Last(self.stack)),
         !.stack = Front(@)]))

load_name(self, arg) ==
  IF ~InRange(self.co_names, arg) THEN Panic("InvalidOperand")
  ELSE IF At(self.co_names, arg) \notin DOMAIN self.locals THEN Panic("NameError")
  ELSE Ok(Advance([self EXCEPT
         !.stack = Append(@, self.locals[At(self.co_names, arg)])]))

\* DeleteName leaving the binding in place
delete_name_keeps(self, arg) ==
  IF ~InRange(self.co_names, arg) THEN Panic("InvalidOperand")
  ELSE Ok(Advance(self))

delete_name(self, arg) ==
  IF ~InRange(self.co_names, arg) THEN Panic("InvalidOperand")
  ELSE Ok(Advance([self EXCEPT !.locals = Remove(@, At(self.co_names, arg))]))

\* StoreFast writing to a scope of its own, here the globals
store_fast_apart(self, arg) ==
  IF ~InRange(self.co_varnames, arg) THEN Panic("InvalidOperand")
  ELSE IF self.stack = << >> THEN Panic("StackUnderflow")
  ELSE Ok(Advance([self EXCEPT
         !.globals = Insert(@, At(self.co_varnames, arg), Last(self.stack)),
         !.stack = Front(@)]))

store_fast(self, arg) ==
  IF ~InRange(self.co_varnames, arg) THEN Panic("InvalidOperand")
  ELSE IF self.stack = << >> THEN Panic("StackUnderflow")
  ELSE Ok(Advance([self EXCEPT
         !.locals = Insert(@, At(self.co_varnames, arg), Last(self.stack)),
         !.stack = Front(@)]))

load_fast(self, arg) ==
  IF ~InRange(self.co_varnames, arg) THEN Panic("InvalidOperand")
  ELSE IF At(self.co_varnames, arg) \notin DOMAIN self.locals THEN Panic("NameError")
  ELSE Ok(Advance([self EXCEPT
         !.stack = Append(@, self.locals[At(self.co_varnames, arg)])]))

delete_fast(self, arg) ==
  IF ~InRange(self.co_varnames, arg) THEN Panic("InvalidOperand")
  ELSE Ok(Advance([self EXCEPT !.locals = Remove(@, At(self.co_varnames, arg))]))

store_global(self, arg) ==
  IF ~InRange(self.co_names, arg) THEN Panic("InvalidOperand")
  ELSE IF self.stack = << >> THEN Panic("StackUnderflow")
  ELSE Ok(Advance([self EXCEPT
         !.globals = Insert(@, At(self.co_names, arg), Last(self.stack)),
         !.stack = Front(@)]))

load_global(self, arg) ==
  IF ~InRange(self.co_names, arg) THEN Panic("InvalidOperand")
  ELSE IF At(self.co_names, arg) \notin DOMAIN self.globals THEN Panic("NameError")
  ELSE Ok(Advance([self EXCEPT
         !.stack = Append(@, self.globals[At(self.co_names, arg)])]))

delete_global(self, arg) ==
  IF ~InRange(self.co_names, arg) THEN Panic("InvalidOperand")
  ELSE Ok(Advance([self EXCEPT !.globals = Remove(@, At(self.co_names, arg))]))

compare_op(self, arg) ==
  IF Len(self.stack) < 2 THEN Panic("StackUnderflow")
  ELSE LET second_var == Last(self.stack)
           first_var == Last(Front(self.stack))
           res == Compare(arg, first_var, second_var)
       IN IF IsPanic(res) THEN res
          ELSE Ok(Advance([self EXCEPT
                 !.stack = Append(Front(Front(@)), res)]))

\* Instruction::JumpForward in Frame::run
jump_forward(self, arg) == Ok([self EXCEPT !.index = @ + (arg \div 2) + 1])

\* JumpAbsolute taking its operand as an instruction index
jump_absolute_unhalved(self, arg) == Ok([self EXCEPT !.index = arg])

\* Instruction::JumpAbsolute in Frame::run
jump_absolute(self, arg) == Ok([self EXCEPT !.index = arg \div 2])

pop_jump_if_true(self, arg) ==
  IF self.stack = << >> THEN Panic("StackUnderflow")
  ELSE IF Last(self.stack).k # "Bool" THEN Panic("TypeMismatch")
  ELSE IF Last(self.stack).v
       THEN Ok([self EXCEPT !.stack = Front(@), !.index = arg \div 2])
       ELSE Ok(Advance([self EXCEPT !.stack = Front(@)]))

pop_jump_if_false(self, arg) ==
  IF self.stack = << >> THEN Panic("StackUnderflow")
  ELSE IF Last(self.stack).k # "Bool" THEN Panic("TypeMismatch")
  ELSE IF ~Last(self.stack).v
       THEN Ok([self EXCEPT !.stack = Front(@), !.index = arg \div 2])
       ELSE Ok(Advance([self EXCEPT !.stack = Front(@)]))

\* JumpIfTrueOrPop popping the tested value on both branches
jump_if_true_or_pop_always(self, arg) ==
  IF self.stack = << >> THEN Panic("StackUnderflow")
  ELSE IF Last(self.stack).k # "Bool" THEN Panic("TypeMismatch")
  ELSE IF Last(self.stack).v
       THEN Ok([self EXCEPT !.stack = Front(@), !.index = arg \div 2])
       ELSE Ok(Advance([self EXCEPT !.stack = Front(@)]))

jump_if_true_or_pop(self, arg) ==
  IF self.stack = << >> THEN Panic("StackUnderflow")
  ELSE IF Last(self.stack).k # "Bool" THEN Panic("TypeMismatch")
  ELSE IF Last(self.stack).v
       THEN Ok([self EXCEPT !.index = arg \div 2])
       ELSE Ok(Advance([self EXCEPT !.stack = Front(@)]))

jump_if_false_or_pop(self, arg) ==
  IF self.stack = << >> THEN Panic("StackUnderflow")
  ELSE IF Last(self.stack).k # "Bool" THEN Panic("TypeMismatch")
  ELSE IF ~Last(self.stack).v
       THEN Ok([self EXCEPT !.index = arg \div 2])
       ELSE Ok(Advance([self EXCEPT !.stack = Front(@)]))

\* MakeFunction taking the Frame from the top and the Str from under it
make_function_frame_on_top(self, arg) ==
  IF arg # 0 THEN Panic("InvalidOperand")
  ELSE IF Len(self.stack) < 2 THEN Panic("StackUnderflow")
  ELSE IF Last(self.stack).k = "Frame" /\ Last(Front(self.stack)).k = "Str"
       THEN Ok(Advance([self EXCEPT
              !.stack = Append(Front(Front(@)), Last(self.stack))]))
       ELSE Panic("TypeMismatch")

\* the first pop (the top) must be a Str, the second a Frame
make_function(self, arg) ==
  IF arg # 0 THEN Panic("InvalidOperand")
  ELSE IF Len(self.stack) < 2 THEN Panic("StackUnderflow")
  ELSE IF Last(self.stack).k = "Str" /\ Last(Front(self.stack)).k = "Frame"
       THEN Ok(Advance([self EXCEPT
              !.stack = Append(Front(Front(@)), Last(Front(self.stack)))]))
       ELSE Panic("TypeMismatch")

\* ReturnValue stepping to the next instruction
return_value_continue(self) ==
  IF self.stack = << >> THEN Panic("StackUnderflow")
  ELSE Ok(Advance([self EXCEPT !.return_value = Last(self.stack),
                               !.stack = Front(@)]))

return_value(self) ==
  IF self.stack = << >> THEN Panic("StackUnderflow")
  ELSE Ok([self EXCEPT !.return_value = Last(self.stack),
                       !.stack = Front(@),
                       !.index = Len(self.instructions)])

\* the shape shared by add, subtract, multiply and true_divide
Binary(self, res) ==
  IF IsPanic(res) THEN res
  ELSE Ok(Advance([self EXCEPT !.stack = Append(Front(Front(@)), res)]))

add(self) ==
  IF Len(self.stack) < 2 THEN Panic("StackUnderflow")
  ELSE Binary(self, Value_add(Last(Front(self.stack)), Last(self.stack)))

subtract(self) ==
  IF Len(self.stack) < 2 THEN Panic("StackUnderflow")
  ELSE Binary(self, Value_sub(Last(Front(self.stack)), Last(self.stack)))

multiply(self) ==
  IF Len(self.stack) < 2 THEN Panic("StackUnderflow")
  ELSE Binary(self, Value_mul(Last(Front(self.stack)), Last(self.stack)))

true_divide(self) ==
  IF Len(self.stack) < 2 THEN Panic("StackUnderflow")
  ELSE Binary(self, Value_div(Last(Front(self.stack)), Last(self.stack)))

floor_divide(self) ==
  IF Len(self.stack) < 2 THEN Panic("StackUnderflow")
  ELSE LET result == Value_div(Last(Front(self.stack)), Last(self.stack))
       IN Binary(self, IF result.k = "Float" THEN VInt(F32AsI32(result.v))
                       ELSE result)

\* Vec::pop without unwrap: an empty stack is left as it is
pop_top(self) ==
  Ok(Advance([self EXCEPT !.stack = IF @ = << >> THEN @ ELSE Front(@)]))

rot_two(self) ==
  IF Len(self.stack) < 2 THEN Panic("StackUnderflow")
  ELSE LET last_pos == Len(self.stack) - 1
       IN Ok(Advance([self EXCEPT !.stack = Swap(@, last_pos, last_pos - 1)]))

\* RotThree with its two swaps made from the bottom upward
rot_three_upward(self) ==
  IF Len(self.stack) < 3 THEN Panic("StackUnderflow")
  ELSE LET last_pos == Len(self.stack) - 1
       IN Ok(Advance([self EXCEPT !.stack =
              Swap(Swap(@, last_pos - 1, last_pos - 2), last_pos, last_pos - 1)]))

rot_three(self) ==
  IF Len(self.stack) < 3 THEN Panic("StackUnderflow")
  ELSE LET last_pos == Len(self.stack) - 1
       IN Ok(Advance([self EXCEPT !.stack =
              Swap(Swap(@, last_pos, last_pos - 1), last_pos - 1, last_pos - 2)]))

rot_four(self) ==
  IF Len(self.stack) < 4 THEN Panic("StackUnderflow")
  ELSE LET last_pos == Len(self.stack) - 1
       IN Ok(Advance([self EXCEPT !.stack =
              Swap(Swap(Swap(@, last_pos, last_pos - 1),
                        last_pos - 1, last_pos - 2),
                   last_pos - 2, last_pos - 3)]))

dup_top(self) ==
  IF self.stack = << >> THEN Panic("StackUnderflow")
  ELSE Ok(Advance([self EXCEPT !.stack = Append(@, Last(@))]))

\* DupTopTwo pushing copies of the two top values in their order
dup_top_two_in_order(self) ==
  IF Len(self.stack) < 2 THEN Panic("StackUnderflow")
  ELSE Ok(Advance([self EXCEPT !.stack =
         @ \o <<self.stack[Len(self.stack) - 1], self.stack[Len(self.stack)]>>]))

\* push stack[len - 1], then insert stack[len - 3] at len - 3, `len` being
\* the length after the push
dup_top_two(self) ==
  IF self.stack = << >> THEN Panic("StackUnderflow")
  ELSE LET pushed == Append(self.stack, At(self.stack, Len(self.stack) - 1))
       IN IF Len(pushed) < 3 THEN Panic("StackUnderflow")
          ELSE Ok(Advance([self EXCEPT !.stack =
                 InsertAt(pushed, Len(pushed) - 3, At(pushed, Len(pushed) - 3))]))

unary_negative(self) ==
  IF self.stack = << >> THEN Panic("StackUnderflow")
  ELSE LET negative == Value_sub(VInt(0), Last(self.stack))
       IN IF IsPanic(negative) THEN negative
          ELSE Ok(Advance([self EXCEPT !.stack = Append(Front(@), negative)]))

\* Instruction::Nop and Instruction::UnaryPositive in Frame::run
nop(self) == Ok(Advance(self))

----------------------------------------------------------------------------
(* Frame::print: the line println! writes for each variant.                *)

DigitChars == <<"0", "1", "2", "3", "4", "5", "6", "7", "8", "9">>

RECURSIVE Digits(_)
Digits(n) ==
  IF n < 10 THEN <<DigitChars[n + 1]>>
  ELSE Digits(n \div 10) \o <<DigitChars[(n % 10) + 1]>>

\* Display for i32
RenderInt(n) == IF n < 0 THEN <<"-">> \o Digits(-n) ELSE Digits(n)

\* the decimal digits of r/d, 0 <= r < d, at most `fuel` of them
RECURSIVE FracDigits(_, _, _)
FracDigits(r, d, fuel) ==
  IF r = 0 \/ fuel = 0 THEN << >>
  ELSE <<DigitChars[((r * 10) \div d) + 1]>> \o FracDigits((r * 10) % d, d, fuel - 1)

\* Display for f32; exact for the values with a finite decimal expansion of
\* at most seven fractional digits
RenderFloat(a) ==
  IF QIsNaN(a) THEN <<"N", "a", "N">>
  ELSE IF QIsInf(a) THEN (IF a.n > 0 THEN <<"i", "n", "f">>
                          ELSE <<"-", "i", "n", "f">>)
  ELSE LET m == Abs(a.n)
           whole == (IF a.n < 0 THEN <<"-">> ELSE << >>) \o Digits(m \div a.d)
       IN IF m % a.d = 0 THEN whole
          ELSE whole \o <<".">> \o FracDigits(m % a.d, a.d, 7)

\* the text of one println! call; a Frame is shown by its type name only
Render(val) ==
  CASE val.k = "Int" -> RenderInt(val.v)
    [] val.k = "Bool" -> IF val.v THEN <<"t", "r", "u", "e">>
                         ELSE <<"f", "a", "l", "s", "e">>
    [] val.k = "Float" -> RenderFloat(val.v)
    [] val.k = "Str" -> val.v
    [] val.k = "Nonetype" -> <<"N", "o", "n", "e">>
    [] val.k = "Frame" -> <<"F", "r", "a", "m", "e">>

\* println! writing its line ahead of the lines written so far
println_first(out, val) == <<Render(val)>> \o out

\* println!: one more entry of the output, after those written so far
println(out, val) == Append(out, Render(val))

print(self) ==
  IF self.stack = << >> THEN Panic("StackUnderflow")
  ELSE Ok(Advance([self EXCEPT !.stack = Front(@)]))

create_print_frame ==
  [instructions |-> <<Ins("LoadFast", 0), Ins("Print", 0)>>,
   constants |-> <<VStr(<<"t", "o", "_", "p", "r", "i", "n", "t">>)>>,
   co_names |-> << >>,
   co_varnames |-> <<"to_print">>,
   stack |-> << >>, index |-> 0, globals |-> EmptyMap, locals |-> EmptyMap,
   return_value |-> Nonetype, depth |-> 0]

----------------------------------------------------------------------------
(* The call protocol (Frame::call_function).  `fs` is the chain of live    *)
(* frames, the caller last.                                                *)

\* BindArgs filling the fast names from the first slot forward
RECURSIVE BindArgsForward(_, _, _, _)
BindArgsForward(frame, stack, i, arg) ==
  IF i = arg THEN Ok([frame |-> frame, stack |-> stack])
  ELSE IF ~InRange(frame.co_varnames, i) THEN Panic("ArityMismatch")
  ELSE IF stack = << >> THEN Panic("StackUnderflow")
  ELSE BindArgsForward([frame EXCEPT !.locals =
                          Insert(@, At(frame.co_varnames, i), Last(stack))],
                       Front(stack), i + 1, arg)

\* the loop `for i in 0..arg` binding the arguments popped off `stack`
RECURSIVE BindArgs(_, _, _, _)
BindArgs(frame, stack, i, arg) ==
  IF i = arg THEN Ok([frame |-> frame, stack |-> stack])
  ELSE IF ~InRange(frame.co_varnames, Len(frame.co_varnames) - i - 1)
       THEN Panic("ArityMismatch")
  ELSE IF stack = << >> THEN Panic("StackUnderflow")
  ELSE BindArgs([frame EXCEPT !.locals =
                   Insert(@, At(frame.co_varnames, Len(frame.co_varnames) - i - 1),
                          Last(stack))],
                Front(stack), i + 1, arg)

\* propagate_scope handing down the caller's globals at every depth
propagate_scope_globals(self, frame) ==
  [frame EXCEPT !.globals = self.globals, !.depth = @ + self.depth + 1]

\* the callee's globals and depth, set from the caller `self`
propagate_scope(self, frame) ==
  [frame EXCEPT
     !.globals = IF self.depth = 0 THEN self.locals ELSE self.globals,
     !.depth = @ + self.depth + 1]

\* call_function running the stored frame where it stands: the caller's
\* stack keeps the callee with the arguments bound in it
call_function_in_place(fs, arg) ==
  LET self == Last(fs)
  IN IF Len(self.stack) < arg + 1 THEN Panic("StackUnderflow")
     ELSE LET pos == Len(self.stack) - arg - 1
              callee == At(self.stack, pos)
              bound == BindArgs(callee.v, RemoveAt(self.stack, pos), 0, arg)
          IN IF callee.k # "Frame" THEN Panic("TypeMismatch")
             ELSE IF IsPanic(bound) THEN bound
             ELSE IF Len(fs) >= MaxFrames THEN Panic("StackOverflow")
             ELSE Ok(Append([fs EXCEPT ![Len(fs)].stack =
                               Append(bound.v.stack,
                                      VFrame(propagate_scope(self, bound.v.frame)))],
                            propagate_scope(self, bound.v.frame)))

\* up to the entry into frame.run(): the caller keeps its index while the
\* callee runs
call_function(fs, arg) ==
  LET self == Last(fs)
  IN IF Len(self.stack) < arg + 1 THEN Panic("StackUnderflow")
     ELSE LET pos == Len(self.stack) - arg - 1
              callee == At(self.stack, pos)
              bound == BindArgs(callee.v, RemoveAt(self.stack, pos), 0, arg)
          IN IF callee.k # "Frame" THEN Panic("TypeMismatch")
             ELSE IF IsPanic(bound) THEN bound
             ELSE IF Len(fs) >= MaxFrames THEN Panic("StackOverflow")
             ELSE Ok(Append([fs EXCEPT ![Len(fs)].stack = bound.v.stack],
                            propagate_scope(self, bound.v.frame)))

\* call_return with the callee's globals shared with the caller's scope
\* instead of copied from it
call_return_shared(fs) ==
  LET frame == Last(fs)
      callers == Front(fs)
      self == Last(callers)
  IN [callers EXCEPT ![Len(callers)] =
        Advance([self EXCEPT
           !.stack = Append(@, frame.return_value),
           !.locals = IF self.depth = 0 THEN frame.globals ELSE @,
           !.globals = IF self.depth = 0 THEN @ ELSE frame.globals])]

\* from the return of frame.run(): the callee is dropped, its return value
\* pushed and the caller's index advanced
call_return(fs) ==
  LET frame == Last(fs)
      callers == Front(fs)
  IN [callers EXCEPT ![Len(callers)] =
        Advance([@ EXCEPT !.stack = Append(@, frame.return_value)])]

----------------------------------------------------------------------------
(* The dispatch loop (Frame::run) and the process (main).                  *)

Cur == Last(frames)

Running == status = "running"

\* `self.instructions.get(self.index)` is None
AtEnd(self) == ~InRange(self.instructions, self.index)

Instr == At(Cur.instructions, Cur.index)

\* the loop of Frame::run fetches an instruction of this kind
Fetch(op) == Running /\ ~AtEnd(Cur) /\ Instr.op = op

\* history: the step taken, the output before it, and at a return the
\* caller as it was when the call began
Note(op, arg, snap) ==
  /\ last' = [op |-> op, arg |-> arg, lvl |-> Len(frames), snap |-> snap,
              out |-> output]
  /\ pre' = frames

\* history of one live frame: the value its ReturnValue popped, the last
\* write its own instructions made to each identifier of its locals (a store
\* with the value, or a delete, through the name or the fast table), and
\* the caller as it was when the call began
NewShadow(caller) == [returned |-> << >>, names |-> EmptyMap, caller |-> caller]

Stored(sh, key, val, via) ==
  [sh EXCEPT !.names = Insert(@, key, [t |-> "store", v |-> val, via |-> via])]

Deleted(sh, key, via) ==
  [sh EXCEPT !.names = Insert(@, key, [t |-> "delete", v |-> Nonetype, via |-> via])]

\* the running frame becomes res.v, or the process panics
Step(res, sh) ==
  /\ Note(Instr.op, Instr.arg, << >>)
  /\ IF IsPanic(res)
     THEN /\ status' = "panic"
          /\ error' = res.v
          /\ UNCHANGED <<frames, shadow>>
     ELSE /\ frames' = [frames EXCEPT ![Len(frames)] = res.v]
          /\ shadow' = [shadow EXCEPT ![Len(shadow)] = sh]
          /\ UNCHANGED <<status, error>>

Plain(res) == Step(res, Last(shadow)) /\ UNCHANGED output

LoadConst == Fetch("LoadConst") /\ Plain(load_const(Cur, Instr.arg))

StoreName ==
  /\ Fetch("StoreName")
  /\ Step(store_name(Cur, Instr.arg),
          Stored(Last(shadow), At(Cur.co_names, Instr.arg), Last(Cur.stack), "name"))
  /\ UNCHANGED output

LoadName == Fetch("LoadName") /\ Plain(load_name(Cur, Instr.arg))

DeleteName ==
  /\ Fetch("DeleteName")
  /\ Step(delete_name(Cur, Instr.arg),
          Deleted(Last(shadow), At(Cur.co_names, Instr.arg), "name"))
  /\ UNCHANGED output

StoreFast ==
  /\ Fetch("StoreFast")
  /\ Step(store_fast(Cur, Instr.arg),
          Stored(Last(shadow), At(Cur.co_varnames, Instr.arg), Last(Cur.stack), "fast"))
  /\ UNCHANGED output

LoadFast == Fetch("LoadFast") /\ Plain(load_fast(Cur, Instr.arg))

DeleteFast ==
  /\ Fetch("DeleteFast")
  /\ Step(delete_fast(Cur, Instr.arg),
          Deleted(Last(shadow), At(Cur.co_varnames, Instr.arg), "fast"))
  /\ UNCHANGED output

StoreGlobal == Fetch("StoreGlobal") /\ Plain(store_global(Cur, Instr.arg))

LoadGlobal == Fetch("LoadGlobal") /\ Plain(load_global(Cur, Instr.arg))

DeleteGlobal == Fetch("DeleteGlobal") /\ Plain(delete_global(Cur, Instr.arg))

CompareOp == Fetch("CompareOp") /\ Plain(compare_op(Cur, Instr.arg))

JumpForward == Fetch("JumpForward") /\ Plain(jump_forward(Cur, Instr.arg))

PopJumpIfTrue == Fetch("PopJumpIfTrue") /\ Plain(pop_jump_if_true(Cur, Instr.arg))

PopJumpIfFalse == Fetch("PopJumpIfFalse") /\ Plain(pop_jump_if_false(Cur, Instr.arg))

JumpIfTrueOrPop ==
  Fetch("JumpIfTrueOrPop") /\ Plain(jump_if_true_or_pop(Cur, Instr.arg))

JumpIfFalseOrPop ==
  Fetch("JumpIfFalseOrPop") /\ Plain(jump_if_false_or_pop(Cur, Instr.arg))

JumpAbsolute == Fetch("JumpAbsolute") /\ Plain(jump_absolute(Cur, Instr.arg))

MakeFunction == Fetch("MakeFunction") /\ Plain(make_function(Cur, Instr.arg))

\* the caller's half of call_function up to frame.run()
CallFunction ==
  /\ Fetch("CallFunction")
  /\ Note(Instr.op, Instr.arg, << >>)
  /\ LET res == call_function(frames, Instr.arg)
     IN IF IsPanic(res)
        THEN /\ status' = "panic"
             /\ error' = res.v
             /\ UNCHANGED <<frames, shadow>>
        ELSE /\ frames' = res.v
             /\ shadow' = Append(shadow, NewShadow(<<Cur>>))
             /\ UNCHANGED <<status, error>>
  /\ UNCHANGED output

\* the callee's loop ends and call_function finishes in the caller
CallReturn ==
  /\ Running
  /\ AtEnd(Cur)
  /\ Len(frames) > 1
  /\ Note("return", 0, Last(shadow).caller)
  /\ frames' = call_return(frames)
  /\ shadow' = Front(shadow)
  /\ UNCHANGED <<status, error, output>>

ReturnValue ==
  /\ Fetch("ReturnValue")
  /\ Step(return_value(Cur), [Last(shadow) EXCEPT !.returned = <<Last(Cur.stack)>>])
  /\ UNCHANGED output

InplaceAdd == Fetch("InplaceAdd") /\ Plain(add(Cur))

InplaceSubtract == Fetch("InplaceSubtract") /\ Plain(subtract(Cur))

InplaceMultiply == Fetch("InplaceMultiply") /\ Plain(multiply(Cur))

InplaceTrueDivide == Fetch("InplaceTrueDivide") /\ Plain(true_divide(Cur))

InplaceFloorDivide == Fetch("InplaceFloorDivide") /\ Plain(floor_divide(Cur))

BinaryAdd == Fetch("BinaryAdd") /\ Plain(add(Cur))

BinarySubtract == Fetch("BinarySubtract") /\ Plain(subtract(Cur))

BinaryMultiply == Fetch("BinaryMultiply") /\ Plain(multiply(Cur))

BinaryTrueDivide == Fetch("BinaryTrueDivide") /\ Plain(true_divide(Cur))

BinaryFloorDivide == Fetch("BinaryFloorDivide") /\ Plain(floor_divide(Cur))

Nop == Fetch("Nop") /\ Plain(nop(Cur))

PopTop == Fetch("PopTop") /\ Plain(pop_top(Cur))

RotTwo == Fetch("RotTwo") /\ Plain(rot_two(Cur))

RotThree == Fetch("RotThree") /\ Plain(rot_three(Cur))

RotFour == Fetch("RotFour") /\ Plain(rot_four(Cur))

DupTop == Fetch("DupTop") /\ Plain(dup_top(Cur))

DupTopTwo == Fetch("DupTopTwo") /\ Plain(dup_top_two(Cur))

UnaryPositive == Fetch("UnaryPositive") /\ Plain(nop(Cur))

UnaryNegative == Fetch("UnaryNegative") /\ Plain(unary_negative(Cur))

PrintLine ==
  /\ Fetch("Print")
  /\ Step(print(Cur), Last(shadow))
  /\ output' = IF Cur.stack = << >> THEN output
               ELSE println(output, Last(Cur.stack))

\* the root frame's loop ends and main returns (its timing line is left out)
Exit ==
  /\ Running
  /\ AtEnd(Cur)
  /\ Len(frames) = 1
  /\ Note("exit", 0, << >>)
  /\ status' = "done"
  /\ UNCHANGED <<frames, error, output, shadow>>

Next ==
  \/ LoadConst \/ StoreName \/ LoadName \/ DeleteName
  \/ StoreFast \/ LoadFast \/ DeleteFast
  \/ StoreGlobal \/ LoadGlobal \/ DeleteGlobal
  \/ CompareOp \/ JumpForward \/ PopJumpIfTrue \/ PopJumpIfFalse
  \/ JumpIfTrueOrPop \/ JumpIfFalseOrPop \/ JumpAbsolute
  \/ MakeFunction \/ CallFunction \/ CallReturn \/ ReturnValue
  \/ InplaceAdd \/ InplaceSubtract \/ InplaceMultiply
  \/ InplaceTrueDivide \/ InplaceFloorDivide
  \/ BinaryAdd \/ BinarySubtract \/ BinaryMultiply
  \/ BinaryTrueDivide \/ BinaryFloorDivide
  \/ Nop \/ PopTop \/ RotTwo \/ RotThree \/ RotFour \/ DupTop \/ DupTopTwo
  \/ UnaryPositive \/ UnaryNegative \/ PrintLine \/ Exit

----------------------------------------------------------------------------
(* The program documents explored.  A document gives a root frame; serde   *)
(* takes its mutable fields from the document when it states them.         *)

SeqsUpTo(S, n) == UNION {[1..m -> S] : m \in 0..n}

RECURSIVE Flatten(_)
Flatten(seqs) == IF seqs = << >> THEN << >> ELSE Head(seqs) \o Flatten(Tail(seqs))

\* a function of two parameters returning its second
Second ==
  NewFrame(<<Ins("LoadFast", 1), Ins("ReturnValue", 0)>>, << >>, << >>, <<"a", "b">>)

\* one instruction, placed at index 1 and again at index 3, on every short stack
IndexedOps ==
  {"LoadConst", "StoreName", "LoadName", "DeleteName", "StoreFast", "LoadFast",
   "DeleteFast", "StoreGlobal", "LoadGlobal", "DeleteGlobal"}

JumpOps ==
  {"JumpForward", "PopJumpIfTrue", "PopJumpIfFalse", "JumpIfTrueOrPop",
   "JumpIfFalseOrPop", "JumpAbsolute"}

PlainOps ==
  {"ReturnValue", "InplaceAdd", "InplaceSubtract", "InplaceMultiply",
   "InplaceTrueDivide", "InplaceFloorDivide", "BinaryAdd", "BinarySubtract",
   "BinaryMultiply", "BinaryTrueDivide", "BinaryFloorDivide", "Nop", "PopTop",
   "RotTwo", "RotThree", "RotFour", "DupTop", "DupTopTwo", "UnaryPositive",
   "UnaryNegative", "Print"}

SingleInstrs ==
  {Ins(op, arg) : op \in IndexedOps, arg \in 0..2}
    \cup {Ins("CompareOp", arg) : arg \in 0..6}
    \cup {Ins(op, arg) : op \in JumpOps, arg \in {0, 3, 4, 10}}
    \cup {Ins("MakeFunction", arg) : arg \in 0..1}
    \cup {Ins("CallFunction", arg) : arg \in 0..2}
    \cup {Ins(op, 0) : op \in PlainOps}

SingleVals ==
  {VInt(1), VInt(2), VBool(TRUE), VBool(FALSE), VStr(<<"s">>), VFrame(Second)}

SingleStacks ==
  SeqsUpTo(SingleVals, MaxInitStack)
    \cup {<<VInt(1), VInt(2), VInt(3)>>,
          <<VInt(1), VInt(2), VInt(3), VInt(4)>>,
          <<VStr(<<"s">>), VBool(TRUE), VInt(1)>>,
          <<VInt(3), VFrame(Second), VInt(1), VInt(2)>>}

SingleDocs ==
  {[NewFrame(<<Ins("Nop", 0), i, Ins("Nop", 0), i>>,
             <<VInt(5), VFrame(Second)>>, <<"x", "y">>, <<"x", "z">>)
      EXCEPT !.stack = st] : i \in SingleInstrs, st \in SingleStacks}

\* sequences of scope instructions on the identifier x, which both tables
\* name (names[1] and fastNames[0]), and on print
ScopeInstrs ==
  {Ins("StoreName", 1), Ins("LoadName", 1), Ins("DeleteName", 1),
   Ins("StoreFast", 0), Ins("LoadFast", 0), Ins("DeleteFast", 0),
   Ins("StoreGlobal", 1), Ins("LoadGlobal", 1), Ins("DeleteGlobal", 1),
   Ins("LoadName", 0), Ins("DeleteName", 0)}

ScopeDocs ==
  {[NewFrame(is, << >>, <<"print", "x">>, <<"x", "z">>)
      EXCEPT !.stack = <<VInt(4), VInt(3), VInt(2), VInt(1)>>,
             !.globals = Insert(EmptyMap, "x", VInt(9))]
     : is \in SeqsUpTo(ScopeInstrs, MaxScopeLen)}

\* root calls f, f calls g; f and g both run the same writes `u` to their
\* scopes: stores of constant c and deletes, by name 1, fast name 0, global 1
WriteSeqs == SeqsUpTo(1..6, MaxScopeLen)

\* the k-th write, storing constant c
Write(c, k) ==
  CASE k = 1 -> <<Ins("LoadConst", c), Ins("StoreName", 1)>>
    [] k = 2 -> <<Ins("LoadConst", c), Ins("StoreFast", 0)>>
    [] k = 3 -> <<Ins("LoadConst", c), Ins("StoreGlobal", 1)>>
    [] k = 4 -> <<Ins("DeleteName", 1)>>
    [] k = 5 -> <<Ins("DeleteFast", 0)>>
    [] k = 6 -> <<Ins("DeleteGlobal", 1)>>

WriteCode(c, u) == Flatten([i \in 1..Len(u) |-> Write(c, u[i])])

ChainG(u) ==
  NewFrame(WriteCode(0, u) \o <<Ins("LoadConst", 0), Ins("ReturnValue", 0)>>,
           <<VInt(100)>>, <<"g", "x">>, <<"a">>)

ChainF(u) ==
  NewFrame(<<Ins("LoadConst", 0), Ins("LoadConst", 1), Ins("MakeFunction", 0),
             Ins("StoreName", 0)>>
             \o WriteCode(2, u)
             \o <<Ins("LoadName", 0), Ins("LoadFast", 1), Ins("CallFunction", 1),
                  Ins("ReturnValue", 0), Ins("LoadConst", 2), Ins("Print", 0)>>,
           <<VFrame(ChainG(u)), VStr(<<"g">>), VInt(50)>>,
           <<"g", "x">>, <<"p", "q">>)

ChainRoot(u) ==
  NewFrame(<<Ins("LoadConst", 0), Ins("LoadConst", 1), Ins("MakeFunction", 0),
             Ins("StoreName", 0),
             Ins("LoadConst", 2), Ins("StoreName", 1),
             Ins("LoadConst", 3), Ins("StoreGlobal", 1),
             Ins("LoadConst", 3),
             Ins("LoadName", 0), Ins("LoadConst", 2), Ins("LoadConst", 3),
             Ins("CallFunction", 2),
             Ins("LoadName", 2), Ins("RotTwo", 0), Ins("CallFunction", 1),
             Ins("PopTop", 0), Ins("PopTop", 0)>>,
           <<VFrame(ChainF(u)), VStr(<<"f">>), VInt(7), VInt(9)>>,
           <<"f", "x", "print">>, << >>)

ChainDocs == {ChainRoot(u) : u \in WriteSeqs}

\* f(n) = if n == 0 then 0 else f(n - 1), called by the root with n0
Countdown ==
  NewFrame(<<Ins("LoadFast", 0), Ins("LoadConst", 0), Ins("CompareOp", 2),
             Ins("PopJumpIfTrue", 20),
             Ins("LoadGlobal", 0), Ins("LoadFast", 0), Ins("LoadConst", 1),
             Ins("BinarySubtract", 0), Ins("CallFunction", 1),
             Ins("ReturnValue", 0),
             Ins("LoadConst", 0), Ins("ReturnValue", 0)>>,
           <<VInt(0), VInt(1)>>, <<"f">>, <<"n">>)

CountdownRoot(n0) ==
  NewFrame(<<Ins("LoadConst", 0), Ins("LoadConst", 1), Ins("MakeFunction", 0),
             Ins("StoreName", 0),
             Ins("LoadName", 1), Ins("LoadName", 0), Ins("LoadConst", 2),
             Ins("CallFunction", 1), Ins("CallFunction", 1), Ins("PopTop", 0)>>,
           <<VFrame(Countdown), VStr(<<"f">>), VInt(n0)>>,
           <<"f", "print">>, << >>)

CountdownDocs == {CountdownRoot(n0) : n0 \in 0..MaxFrames}

\* one comparison or arithmetic instruction on every pair of operands
ArithOps ==
  {"InplaceAdd", "InplaceSubtract", "InplaceMultiply", "InplaceTrueDivide",
   "InplaceFloorDivide", "BinaryAdd", "BinarySubtract", "BinaryMultiply",
   "BinaryTrueDivide", "BinaryFloorDivide"}

ArithInstrs ==
  {Ins(op, 0) : op \in ArithOps} \cup {Ins("CompareOp", arg) : arg \in 0..5}

ArithVals ==
  {VInt(-7), VInt(-2), VInt(0), VInt(1), VInt(2), VInt(5), VInt(7),
   VBool(TRUE), VBool(FALSE), VFloat(Q(1, 2)), VFloat(Q(-7, 2)),
   VStr(<<"s">>), Nonetype, VFrame(Second)}

\* integers at and beyond the last one that f32 holds exactly
WideInts == {F32Exact - 1, F32Exact, F32Exact + 1, 2 * F32Exact - 1}

ArithDocs ==
  {[NewFrame(<<i>>, << >>, << >>, << >>) EXCEPT !.stack = <<l, r>>]
     : i \in ArithInstrs, l \in ArithVals, r \in ArithVals}
    \cup
  {[NewFrame(<<Ins(op, 0)>>, << >>, << >>, << >>)
      EXCEPT !.stack = <<VInt(s * a), VInt(b)>>]
     : op \in {"InplaceFloorDivide", "BinaryFloorDivide"},
       s \in {-1, 1}, a \in WideInts, b \in {1, 2, -2}}

\* print(5 + 3)
PrintSumDoc ==
  NewFrame(<<Ins("LoadName", 0), Ins("LoadConst", 0), Ins("LoadConst", 1),
             Ins("BinaryAdd", 0), Ins("CallFunction", 1), Ins("PopTop", 0)>>,
           <<VInt(5), VInt(3)>>, <<"print">>, << >>)

\* print 1; f(), which calls print(2); print(3)
PrintInner ==
  NewFrame(<<Ins("LoadGlobal", 0), Ins("LoadConst", 0), Ins("CallFunction", 1),
             Ins("ReturnValue", 0)>>,
           <<VInt(2)>>, <<"print">>, << >>)

PrintOrderDoc ==
  NewFrame(<<Ins("LoadConst", 2), Ins("Print", 0),
             Ins("LoadConst", 0), Ins("LoadConst", 1), Ins("MakeFunction", 0),
             Ins("CallFunction", 0), Ins("PopTop", 0),
             Ins("LoadName", 0), Ins("LoadConst", 3), Ins("CallFunction", 1),
             Ins("PopTop", 0)>>,
           <<VFrame(PrintInner), VStr(<<"f">>), VInt(1), VInt(3)>>,
           <<"print">>, << >>)

\* RotTwo twice, RotThree three times, RotFour four times
RotStacks ==
  {<<VInt(1), VInt(2), VInt(3), VInt(4)>>,
   <<VInt(1), VInt(2), VInt(3), VInt(4), VInt(5)>>,
   <<VStr(<<"s">>), VBool(TRUE), VInt(1), VFrame(Second), Nonetype>>}

RotDocs ==
  {[NewFrame([k \in 1..n |->
                Ins(CASE n = 2 -> "RotTwo" [] n = 3 -> "RotThree" [] n = 4 -> "RotFour", 0)],
             << >>, << >>, << >>)
      EXCEPT !.stack = st] : n \in 2..4, st \in RotStacks}

Documents ==
  SingleDocs \cup ScopeDocs \cup ChainDocs \cup CountdownDocs \cup {PrintSumDoc}
    \cup ArithDocs \cup {PrintOrderDoc} \cup RotDocs

\* main: the print frame is bound in the root's locals, then the root runs
main(frame) ==
  [frame EXCEPT !.locals = Insert(@, "print", VFrame(create_print_frame))]

Init ==
  /\ \E doc \in Documents : frames = <<main(doc)>>
  /\ status = "running"
  /\ error = ""
  /\ output = << >>
  /\ last = [op |-> "init", arg |-> 0, lvl |-> 0, snap |-> << >>, out |-> << >>]
  /\ pre = << >>
  /\ shadow = <<NewShadow(<< >>)>>

Spec == Init /\ [][Next]_vars

----------------------------------------------------------------------------
(* Properties.  Each reads the step taken last (`last`), the frames before *)
(* it (`pre`) and the frames after it.                                     *)

\* instruction `op` has just run without a panic
Ran(op) == last.op = op /\ status = "running"

\* the frame that ran the last instruction, before and after it
Before == pre[last.lvl]

After == frames[last.lvl]

\* the caller as it was when the call that has just returned began, the
\* operand of that call and the caller's stack under callee and arguments
CallSite == last.snap[1]

CallArity == At(CallSite.instructions, CallSite.index).arg

CallBase == SubSeq(CallSite.stack, 1, Len(CallSite.stack) - CallArity - 1)

\* C1: a callee entered from a frame of depth 0 starts with the caller's
\* locals as its globals; a callee entered from a deeper frame starts with
\* the caller's globals as its globals.
C1_ScopePropagation ==
  Ran("CallFunction") =>
    LET caller == Before
        callee == frames[last.lvl + 1]
    IN /\ Len(frames) = last.lvl + 1
       /\ caller.depth = 0 => callee.globals = caller.locals
       /\ caller.depth >= 1 => callee.globals = caller.globals

\* g has just been entered from f, which the root entered: g's globals are
\* f's globals and not f's locals, and f's globals are the root's locals at
\* its call and not the root's globals
C1_Witness ==
  /\ Ran("CallFunction")
  /\ Len(frames) = 3
  /\ frames[1].depth = 0
  /\ frames[2].depth = 1
  /\ frames[3].globals = frames[2].globals
  /\ frames[3].globals # frames[2].locals
  /\ frames[2].globals = shadow[2].caller[1].locals
  /\ shadow[2].caller[1].locals # shadow[2].caller[1].globals

\* C2: CallFunction(n) on [..., f, a1, ..., an] takes f, the value n places
\* under the top, as the callee, removes f and the n arguments, binds aj to
\* fast name k - n + j - 1 of the callee's k, and after the callee has
\* finished the caller's stack is [..., r], r the callee's return value.
C2_ArgumentBinding ==
  /\ Ran("CallFunction") =>
       LET n == last.arg
           S == Before.stack
           f == S[Len(S) - n]
           callee == frames[last.lvl + 1]
           k == Len(callee.co_varnames)
       IN /\ f.k = "Frame"
          /\ callee.instructions = f.v.instructions
          /\ callee.constants = f.v.constants
          /\ callee.co_names = f.v.co_names
          /\ callee.co_varnames = f.v.co_varnames
          /\ After.stack = SubSeq(S, 1, Len(S) - n - 1)
          /\ k >= n
          /\ \A j \in 1..n :
               /\ At(callee.co_varnames, k - n + j - 1) \in DOMAIN callee.locals
               /\ callee.locals[At(callee.co_varnames, k - n + j - 1)]
                    = S[Len(S) - n + j]
          /\ DOMAIN callee.locals =
               DOMAIN f.v.locals
                 \cup {At(callee.co_varnames, k - n + j - 1) : j \in 1..n}
  /\ last.op = "return" =>
       Cur.stack = Append(CallBase, Last(pre).return_value)

\* CallFunction(2) on [3, f, 1, 2] has returned: a was bound to 1 and b to 2,
\* and the stack is [3, 2]
C2_Witness ==
  /\ last.op = "return"
  /\ CallSite.stack = <<VInt(3), VFrame(Second), VInt(1), VInt(2)>>
  /\ Last(pre).locals = Insert(Insert(EmptyMap, "a", VInt(1)), "b", VInt(2))
  /\ Cur.stack = <<VInt(3), VInt(2)>>

\* C3: whatever a callee and its own callees store or delete, the caller's
\* locals and globals while the callee runs and after it has returned are
\* those from before the call, and so is its stack under callee and arguments.
C3_CalleeIsolation ==
  /\ \A i \in 2..Len(frames) :
       LET site == shadow[i].caller[1]
           n == At(site.instructions, site.index).arg
       IN /\ frames[i - 1].locals = site.locals
          /\ frames[i - 1].globals = site.globals
          /\ frames[i - 1].stack = SubSeq(site.stack, 1, Len(site.stack) - n - 1)
          /\ frames[i - 1].index = site.index
  /\ last.op = "return" =>
       /\ Cur.locals = CallSite.locals
       /\ Cur.globals = CallSite.globals
       /\ Front(Cur.stack) = CallBase

\* f, entered from the root, has deleted x from its globals, stored x in
\* its locals and returned: the root still binds x to 7
C3_Witness ==
  /\ last.op = "return"
  /\ Len(frames) = 1
  /\ "x" \notin DOMAIN Last(pre).globals
  /\ "x" \in DOMAIN Last(pre).locals
  /\ "x" \in DOMAIN Cur.locals
  /\ Cur.locals["x"] = VInt(7)
  /\ Cur.globals["x"] = VInt(9)

\* C4: in every reachable state the pointer of every live frame is at most
\* the length of its instructions, and a frame's loop stops only with the
\* pointer equal to that length.
C4_PointerInRange ==
  /\ \A i \in 1..Len(frames) :
       frames[i].index \in 0..Len(frames[i].instructions)
  /\ last.op \in {"return", "exit"} =>
       Last(pre).index = Len(Last(pre).instructions)

\* k is the floor of operand / 2
Halved(k, operand) == 2 * k <= operand /\ operand < 2 * k + 2

\* C5: JumpAbsolute and every taken conditional jump set the pointer to the
\* halved operand; JumpForward adds the halved operand plus one; every other
\* instruction but ReturnValue, a conditional jump not taken and a completed
\* CallFunction included, advances the pointer by one.
C5_JumpTargets ==
  LET p == Before.index
      q == After.index
      top == Last(Before.stack)
  IN /\ (last.op \notin {"init", "return", "exit"} /\ status = "running") =>
          CASE last.op = "JumpAbsolute" -> Halved(q, last.arg)
            [] last.op = "JumpForward" ->
                 \E h \in 0..last.arg : Halved(h, last.arg) /\ q = p + h + 1
            [] last.op \in {"PopJumpIfTrue", "JumpIfTrueOrPop"} ->
                 IF top.v THEN Halved(q, last.arg) ELSE q = p + 1
            [] last.op \in {"PopJumpIfFalse", "JumpIfFalseOrPop"} ->
                 IF ~top.v THEN Halved(q, last.arg) ELSE q = p + 1
            [] last.op = "ReturnValue" -> TRUE
            [] last.op = "CallFunction" -> q = p
            [] OTHER -> q = p + 1
     /\ last.op = "return" => Cur.index = CallSite.index + 1

\* JumpAbsolute(10) has run at pointer 1 and set the pointer to 5
C5_Witness ==
  /\ Ran("JumpAbsolute")
  /\ last.arg = 10
  /\ Before.index = 1
  /\ After.index = 5

\* C6: ReturnValue pops one value into return_value and sets the pointer to
\* the length of the instructions; a frame that has executed it is live only
\* in the state that follows at once, so none of its instructions runs
\* afterwards, and the caller receives the popped value.
C6_ReturnEndsFrame ==
  /\ Ran("ReturnValue") =>
       /\ After.return_value = Last(Before.stack)
       /\ After.stack = Front(Before.stack)
       /\ After.index = Len(After.instructions)
       /\ shadow[last.lvl].returned = <<Last(Before.stack)>>
  /\ \A i \in 1..Len(frames) :
       shadow[i].returned # << >> =>
         /\ i = Len(frames)
         /\ last.lvl = i
         /\ last.op = "ReturnValue" \/ (last.op = "exit" /\ i = 1)
         /\ frames[i].index = Len(frames[i].instructions)
         /\ frames[i].return_value = shadow[i].returned[1]
  /\ last.op = "return" => Last(Cur.stack) = Last(pre).return_value

\* f has returned to the root from a ReturnValue that is followed by
\* LoadConst and Print: nothing was printed and the root received 100
C6_Witness ==
  /\ last.op = "return"
  /\ Len(frames) = 1
  /\ LET f == Last(pre)
     IN /\ f.index = Len(f.instructions)
        /\ Len(f.instructions) > 2
        /\ f.instructions[Len(f.instructions) - 2].op = "ReturnValue"
        /\ Last(f.instructions).op = "Print"
        /\ f.return_value = VInt(100)
  /\ output = << >>
  /\ Last(Cur.stack) = VInt(100)

\* C7 as claimed: DupTopTwo on a stack [a, b, c] (c the top) produces
\* [a, c, b, c].
C7_DupTopTwoAsClaimed ==
  (Ran("DupTopTwo") /\ Len(Before.stack) = 3) =>
    After.stack = <<Before.stack[1], Before.stack[3], Before.stack[2], Before.stack[3]>>

\* C7 as amended: DupTopTwo on a stack [a, b, c] (c the top) produces
\* [a, b, b, c, c]; on any stack of two or more values it doubles each of the
\* two top values in place, and on a shorter stack it panics.
C7_DupTopTwo ==
  last.op = "DupTopTwo" =>
    LET st == Before.stack
        n == Len(st)
    IN IF n < 2 THEN status = "panic"
       ELSE /\ status = "running"
            /\ After.stack =
                 SubSeq(st, 1, n - 2) \o <<st[n - 1], st[n - 1], st[n], st[n]>>
            /\ n = 3 => After.stack = <<st[1], st[2], st[2], st[3], st[3]>>

\* DupTopTwo has run on [1, 2, 3] and left [1, 2, 2, 3, 3]
C7_Witness ==
  /\ Ran("DupTopTwo")
  /\ Before.stack = <<VInt(1), VInt(2), VInt(3)>>
  /\ After.stack = <<VInt(1), VInt(2), VInt(2), VInt(3), VInt(3)>>

\* the instructions that pop a value
PoppingOps ==
  {"PopTop", "StoreName", "StoreFast", "StoreGlobal", "CompareOp",
   "InplaceAdd", "InplaceSubtract", "InplaceMultiply", "InplaceTrueDivide",
   "InplaceFloorDivide", "BinaryAdd", "BinarySubtract", "BinaryMultiply",
   "BinaryTrueDivide", "BinaryFloorDivide", "PopJumpIfTrue", "PopJumpIfFalse",
   "JumpIfTrueOrPop", "JumpIfFalseOrPop", "ReturnValue", "Print",
   "MakeFunction", "CallFunction"}

\* C8: every instruction that pops a value, run on an empty operand stack,
\* aborts the process and does not proceed to the next instruction.
C8_UnderflowFatal ==
  (last.op \in PoppingOps /\ Before.stack = << >>) =>
    status = "panic" /\ frames = pre

\* the identifier LoadName / DeleteName (by the name table) or LoadFast (by
\* the fast table) has just addressed, and the frame's history of it
NameKey == At(Before.co_names, last.arg)

FastKey == At(Before.co_varnames, last.arg)

History == shadow[last.lvl].names

Pushed(val) == status = "running" /\ After.stack = Append(Before.stack, val)
                 /\ After.index = Before.index + 1

NameErrorRaised == status = "panic" /\ error = "NameError" /\ frames = pre

\* DeleteName of an identifier without a binding only advances the pointer
DeleteUnboundIsNoOp ==
  (last.op = "DeleteName" /\ InRange(Before.co_names, last.arg)
     /\ NameKey \notin DOMAIN Before.locals) =>
    status = "running" /\ After = [Before EXCEPT !.index = @ + 1]

\* C9 as claimed: after StoreName/DeleteName instructions on x, LoadName of x
\* pushes the value stored last if the last of them was a StoreName, and is
\* a NameError if the last was a DeleteName or x was never stored.
C9_LoadAfterDeleteAsClaimed ==
  /\ (last.op = "LoadName" /\ InRange(Before.co_names, last.arg)) =>
       IF NameKey \notin DOMAIN History THEN NameErrorRaised
       ELSE IF History[NameKey].via # "name" THEN TRUE
       ELSE IF History[NameKey].t = "store" THEN Pushed(History[NameKey].v)
       ELSE NameErrorRaised
  /\ DeleteUnboundIsNoOp

\* C9 as amended: as claimed, except that an identifier the frame never
\* stored or deleted is a NameError only if the frame's locals hold no
\* binding of it from elsewhere (print in the root, a call argument, the
\* document's locals); if they do, LoadName pushes that binding.  A panic
\* leaves the frames as they were and nothing runs after it.
C9_LoadAfterDelete ==
  /\ (last.op = "LoadName" /\ InRange(Before.co_names, last.arg)) =>
       IF NameKey \notin DOMAIN History
       THEN IF NameKey \in DOMAIN Before.locals
            THEN Pushed(Before.locals[NameKey])
            ELSE NameErrorRaised
       ELSE IF History[NameKey].via # "name" THEN TRUE
       ELSE IF History[NameKey].t = "store" THEN Pushed(History[NameKey].v)
       ELSE NameErrorRaised
  /\ DeleteUnboundIsNoOp
  /\ status = "panic" => frames = pre /\ last.op \notin {"init", "return", "exit"}

\* StoreName x, DeleteName x, LoadName x has ended in a NameError
C9_Witness ==
  /\ Cur.instructions =
       <<Ins("StoreName", 1), Ins("DeleteName", 1), Ins("LoadName", 1)>>
  /\ last.op = "LoadName"
  /\ Cur.index = 2
  /\ NameErrorRaised
  /\ Cur.stack = <<VInt(4), VInt(3), VInt(2)>>

\* C10: the name table and the fast table address one locals mapping: a
\* load through either table pushes the value stored last under that
\* identifier through either, and is a NameError after a delete through
\* either; StoreGlobal and DeleteGlobal leave the locals as they are, and the
\* stores and deletes by name or fast name leave the globals as they are.
C10_SharedLocals ==
  /\ (last.op = "LoadName" /\ InRange(Before.co_names, last.arg)
        /\ NameKey \in DOMAIN History) =>
       IF History[NameKey].t = "store" THEN Pushed(History[NameKey].v)
       ELSE NameErrorRaised
  /\ (last.op = "LoadFast" /\ InRange(Before.co_varnames, last.arg)
        /\ FastKey \in DOMAIN History) =>
       IF History[FastKey].t = "store" THEN Pushed(History[FastKey].v)
       ELSE NameErrorRaised
  /\ last.op \in {"StoreGlobal", "DeleteGlobal"} =>
       After.locals = Before.locals
  /\ last.op \in {"StoreName", "StoreFast", "DeleteName", "DeleteFast"} =>
       After.globals = Before.globals
  /\ (Ran("StoreGlobal") \/ Ran("DeleteGlobal")) =>
       After.globals = IF last.op = "StoreGlobal"
                       THEN Insert(Before.globals, NameKey, Last(Before.stack))
                       ELSE Remove(Before.globals, NameKey)

\* LoadFast has pushed the value the frame stored last through StoreName
\* under the same identifier
C10_Witness ==
  /\ Ran("LoadFast")
  /\ FastKey \in DOMAIN History
  /\ History[FastKey].via = "name"
  /\ History[FastKey].t = "store"
  /\ Last(After.stack) = History[FastKey].v
  /\ FastKey \notin DOMAIN After.globals

----------------------------------------------------------------------------
(* Comparison and arithmetic (C11 to C15).                                 *)

\* the operands of the binary instruction run last: Lhs under Rhs, the top
Lhs == Last(Front(Before.stack))

Rhs == Last(Before.stack)

OnTwoOperands(ops) == last.op \in ops /\ Len(Before.stack) >= 2

\* the instruction run last has replaced its two operands by val
Replaced(val) ==
  /\ status = "running"
  /\ After.stack = Append(Front(Front(Before.stack)), val)
  /\ After.index = Before.index + 1

\* an Integer or a Boolean as an integer, true being 1 and false 0
Widen(val) == IF val.k = "Bool" THEN BoolAsI32(val.v) ELSE val.v

\* the relation of operator code 0..5 between integers
Relation(code, a, b) ==
  CASE code = 0 -> a < b
    [] code = 1 -> a <= b
    [] code = 2 -> a = b
    [] code = 3 -> a # b
    [] code = 4 -> a > b
    [] code = 5 -> a >= b

\* C11: CompareOp with a code in 0..5 on a Boolean and an Integer, in either
\* position, pushes the comparison of the left operand with the right one,
\* both as integers; Integer(2) < Boolean(true) is false.
C11_BoolIntComparison ==
  (OnTwoOperands({"CompareOp"}) /\ last.arg \in 0..5
     /\ {Lhs.k, Rhs.k} = {"Bool", "Int"}) =>
    Replaced(VBool(Relation(last.arg, Widen(Lhs), Widen(Rhs))))

\* the result kind the promotion table gives to an operator on two kinds,
\* "none" for a pair it does not list
TableKind(op, a, b) ==
  LET isAdd == op \in {"BinaryAdd", "InplaceAdd"}
      isMul == op \in {"BinaryMultiply", "InplaceMultiply"}
      isDiv == op \in {"BinaryTrueDivide", "InplaceTrueDivide"}
  IN IF {a, b} \in {{"Int"}, {"Bool"}, {"Bool", "Int"}}
       THEN (IF isDiv THEN "Float" ELSE "Int")
     ELSE IF {a, b} \in {{"Float"}, {"Float", "Int"}, {"Float", "Bool"}}
       THEN "Float"
     ELSE IF isAdd /\ {a, b} = {"Str"} THEN "Str"
     ELSE IF isMul /\ {a, b} = {"Str", "Int"} THEN "Str"
     ELSE "none"

TableOps ==
  {"BinaryAdd", "InplaceAdd", "BinarySubtract", "InplaceSubtract",
   "BinaryMultiply", "InplaceMultiply", "BinaryTrueDivide", "InplaceTrueDivide"}

\* C12: add, subtract, multiply and divide succeed on every pair of kinds of
\* the promotion table, in either order, with a result of the kind the table
\* states, and are a TypeMismatch on every other pair.
C12_PromotionTable ==
  OnTwoOperands(TableOps) =>
    IF TableKind(last.op, Lhs.k, Rhs.k) = "none"
    THEN status = "panic" /\ error = "TypeMismatch"
    ELSE /\ status = "running"
         /\ Len(After.stack) = Len(Before.stack) - 1
         /\ Last(After.stack).k = TableKind(last.op, Lhs.k, Rhs.k)

\* C13: subtraction of Integers and Booleans pushes int(l) - int(r), l under
\* r, for every combination of the two kinds; Integer(5) - Boolean(true) is
\* Integer(4).
C13_SubtractionOrder ==
  (OnTwoOperands({"BinarySubtract", "InplaceSubtract"})
     /\ Lhs.k \in {"Int", "Bool"} /\ Rhs.k \in {"Int", "Bool"}) =>
    Replaced(VInt(Widen(Lhs) - Widen(Rhs)))

\* the quotient of integers truncated toward zero
Truncated(a, b) ==
  LET q == Abs(a) \div Abs(b)
  IN IF (a < 0) = (b < 0) THEN q ELSE -q

\* C14: floor division of Integers a by b, b not zero, pushes the Integer
\* that truncates a/b toward zero.
C14_FloorDivideTruncates ==
  (OnTwoOperands({"BinaryFloorDivide", "InplaceFloorDivide"})
     /\ Lhs.k = "Int" /\ Rhs.k = "Int" /\ Rhs.v # 0) =>
    Replaced(VInt(Truncated(Lhs.v, Rhs.v)))

\* C15: Equal and NotEqual on two operands of one kind push a Boolean,
\* whatever the kind; they are fatal only on pairs that are neither of one
\* kind nor a mixed pair of numeric kinds.
C15_SameKindEquality ==
  (OnTwoOperands({"CompareOp"}) /\ last.arg \in {2, 3}) =>
    IF Lhs.k = Rhs.k \/ {Lhs.k, Rhs.k} \subseteq {"Int", "Bool", "Float"}
    THEN status = "running" /\ Last(After.stack).k = "Bool"
           /\ Len(After.stack) = Len(Before.stack) - 1
    ELSE status = "panic" /\ error = "TypeMismatch"

----------------------------------------------------------------------------
(* The built-in print (C16).                                               *)

\* the callee whose return is the step taken last, as its loop left it
Returned == Last(pre)

\* the run of document doc has ended
Ended(doc) ==
  /\ status = "done"
  /\ frames[1].instructions = doc.instructions
  /\ frames[1].constants = doc.constants

----------------------------------------------------------------------------
(* MakeFunction, the conditional jumps and the rotations (C17 to C19).     *)

\* C17 as claimed: MakeFunction on a Callable over a String (the Callable
\* the top) replaces both with the Callable and advances by one; every other
\* shape of the two top values, a String over a Callable included, is fatal.
C17_MakeFunctionAsClaimed ==
  (OnTwoOperands({"MakeFunction"}) /\ last.arg = 0) =>
    IF Rhs.k = "Frame" /\ Lhs.k = "Str" THEN Replaced(Rhs)
    ELSE status = "panic"

\* C17 as amended: MakeFunction with operand 0 on a String over a Callable
\* (the String the top) replaces both with the Callable and advances by one;
\* every other shape of the two top values, a Callable over a String
\* included, and every other operand is fatal.
C17_MakeFunction ==
  OnTwoOperands({"MakeFunction"}) =>
    IF last.arg = 0 /\ Rhs.k = "Str" /\ Lhs.k = "Frame" THEN Replaced(Lhs)
    ELSE /\ status = "panic"
         /\ frames = pre
         /\ error = IF last.arg = 0 THEN "TypeMismatch" ELSE "InvalidOperand"

\* MakeFunction has run on a String over a Callable and left the Callable
C17_Witness ==
  /\ Ran("MakeFunction")
  /\ Before.stack = <<VFrame(Second), VStr(<<"s">>)>>
  /\ After.stack = <<VFrame(Second)>>
  /\ After.index = Before.index + 1

\* the conditional jump run last has gone to half its operand (taken) or
\* on to the next instruction, leaving `stack`
Jumped(taken, stack) ==
  /\ status = "running"
  /\ After.stack = stack
  /\ After.index = IF taken THEN last.arg \div 2 ELSE Before.index + 1

\* C18: JumpIfTrueOrPop (JumpIfFalseOrPop) on a Boolean jumps and leaves
\* the stack as it is when the top is true (false), and otherwise pops the
\* top and advances by one; PopJumpIfTrue and PopJumpIfFalse pop the tested
\* value on both branches; all four are fatal on any other kind of value.
C18_OrPopJumps ==
  (last.op \in {"JumpIfTrueOrPop", "JumpIfFalseOrPop", "PopJumpIfTrue",
                "PopJumpIfFalse"} /\ Before.stack # << >>) =>
    IF Rhs.k # "Bool" THEN status = "panic" /\ error = "TypeMismatch" /\ frames = pre
    ELSE CASE last.op = "JumpIfTrueOrPop" ->
                Jumped(Rhs.v, IF Rhs.v THEN Before.stack ELSE Front(Before.stack))
           [] last.op = "JumpIfFalseOrPop" ->
                Jumped(~Rhs.v, IF ~Rhs.v THEN Before.stack ELSE Front(Before.stack))
           [] last.op = "PopJumpIfTrue" -> Jumped(Rhs.v, Front(Before.stack))
           [] last.op = "PopJumpIfFalse" -> Jumped(~Rhs.v, Front(Before.stack))

\* JumpIfTrueOrPop(10) has jumped on true and the value is still on the stack
C18_Witness ==
  /\ Ran("JumpIfTrueOrPop")
  /\ last.arg = 10
  /\ Before.stack = <<VInt(1), VBool(TRUE)>>
  /\ After.stack = <<VInt(1), VBool(TRUE)>>
  /\ After.index = 5

\* the rotation instructions and how many values each turns
RotOps == {"RotTwo", "RotThree", "RotFour"}

Turned(op) == CASE op = "RotTwo" -> 2 [] op = "RotThree" -> 3 [] op = "RotFour" -> 4

Rot(op, self) ==
  CASE op = "RotTwo" -> rot_two(self)
    [] op = "RotThree" -> rot_three(self)
    [] op = "RotFour" -> rot_four(self)

\* `op` executed k times in a row on a frame that holds enough values
RECURSIVE RotTimes(_, _, _)
RotTimes(op, k, self) ==
  IF k = 0 THEN self ELSE RotTimes(op, k - 1, Rot(op, self).v)

\* C19: RotTwo, RotThree and RotFour on a stack of at least N = 2, 3, 4
\* values move the top to the N-th place from the top and each of the other
\* N - 1 values one place toward the top, and leave the values below and
\* the length as they are; N executions in a row restore the stack.
C19_Rotations ==
  /\ last.op \in RotOps =>
       LET n == Len(Before.stack)
           N == Turned(last.op)
       IN IF n < N THEN status = "panic"
          ELSE /\ status = "running"
               /\ Len(After.stack) = n
               /\ \A i \in 1..(n - N) : After.stack[i] = Before.stack[i]
               /\ After.stack[n - N + 1] = Before.stack[n]
               /\ \A i \in (n - N + 2)..n : After.stack[i] = Before.stack[i - 1]
               /\ After.index = Before.index + 1
  /\ \A op \in RotOps :
       Len(Cur.stack) >= Turned(op) =>
         RotTimes(op, Turned(op), Cur).stack = Cur.stack
  /\ \A doc \in RotDocs : Ended(doc) => frames[1].stack \in RotStacks

\* the fourth RotFour in a row has put 1, 2, 3, 4, 5 back in place
C19_Witness ==
  /\ Ran("RotFour")
  /\ Before.instructions = [k \in 1..4 |-> Ins("RotFour", 0)]
  /\ Before.index = 3
  /\ Before.stack = <<VInt(1), VInt(3), VInt(4), VInt(5), VInt(2)>>
  /\ After.stack = <<VInt(1), VInt(2), VInt(3), VInt(4), VInt(5)>>

----------------------------------------------------------------------------
(* Function values (C20).                                                  *)

\* the mutable fields of a frame as a constant pool gives them
Fresh(f) ==
  /\ f.index = 0
  /\ f.stack = << >>
  /\ f.locals = EmptyMap
  /\ f.return_value = Nonetype
  /\ f.depth = 0

\* every Callable that frame f holds in its constants, stack, locals or
\* globals, and every Callable those hold in turn, is as a constant pool
\* gives it
RECURSIVE AllFresh(_)
FreshValue(val) == val.k = "Frame" => (Fresh(val.v) /\ AllFresh(val.v))

AllFresh(f) ==
  /\ \A i \in DOMAIN f.constants : FreshValue(f.constants[i])
  /\ \A i \in DOMAIN f.stack : FreshValue(f.stack[i])
  /\ \A x \in DOMAIN f.locals : FreshValue(f.locals[x])
  /\ \A x \in DOMAIN f.globals : FreshValue(f.globals[x])

\* the Callable that the CallFunction run last has called
Called == At(Before.stack, Len(Before.stack) - last.arg - 1).v

\* C20: a call never uses up the function value it calls: every Callable
\* held in a constant pool, stack, locals or globals of any live frame keeps
\* pointer 0, an empty stack, empty locals, None as return value and depth
\* 0; every call, a repeated or recursive one included, starts the called
\* function at instruction 0 with an empty stack, with locals holding the
\* arguments of that call and nothing else, and at the caller's depth plus
\* one.
C20_FunctionsNotConsumed ==
  /\ \A i \in 1..Len(frames) : AllFresh(frames[i]) /\ frames[i].depth = i - 1
  /\ Ran("CallFunction") =>
       /\ Len(frames) = last.lvl + 1
       /\ Cur.instructions = Called.instructions
       /\ Cur.constants = Called.constants
       /\ Cur.index = 0
       /\ Cur.stack = << >>
       /\ Cur.return_value = Nonetype
       /\ DOMAIN Cur.locals =
            {At(Called.co_varnames, Len(Called.co_varnames) - i - 1)
               : i \in 0..(last.arg - 1)}
       /\ Cur.depth = Before.depth + 1

\* the function stored under f has been called from within its own call: the
\* inner call starts at instruction 0 with n alone in its locals
C20_Witness ==
  /\ Ran("CallFunction")
  /\ Len(frames) = 3
  /\ frames[2].instructions = Countdown.instructions
  /\ frames[2].index = 8
  /\ Cur.instructions = Countdown.instructions
  /\ Cur.index = 0
  /\ Cur.stack = << >>
  /\ DOMAIN Cur.locals = {"n"}
  /\ Cur.depth = 2

----------------------------------------------------------------------------
(* UnaryNegative (C21).                                                    *)

\* C21: UnaryNegative replaces an Integer or a Boolean on the top of the
\* stack by the Integer that is its negation, true counting as 1 and false
\* as 0 (Boolean(true) becomes Integer(-1)); it leaves the rest of the stack
\* as it is and advances by one.
C21_UnaryNegative ==
  (last.op = "UnaryNegative" /\ Before.stack # << >>
     /\ Rhs.k \in {"Int", "Bool"}) =>
    /\ status = "running"
    /\ After.stack = Append(Front(Before.stack), VInt(-Widen(Rhs)))
    /\ After.index = Before.index + 1

====
